---- MODULE Spec2Model ----
(***************************************************************************)
(* A model of termgpt (src/src/main.rs): the message ledger ChatMessages   *)
(* with its listeners, the JSON-lines session file, the plain-text output  *)
(* file, and the two drivers (repl_loop and the piped single shot of main).*)
(*                                                                         *)
(* Text is a sequence of characters.  A character is a TLA+ string; the    *)
(* three characters JSON treats specially are LF, QUOTE and BSL, every     *)
(* other string stands for a run of ordinary characters.  A file is a      *)
(* record [exists, bytes] whose bytes are such a sequence.                 *)
(***************************************************************************)
EXTENDS Naturals, Sequences, FiniteSets

\* ---------------------------------------------------------------- bounds
\* Lines the interactive driver reads before the model stops offering input.
MaxRounds == 2
\* Longest choice list a completion response carries.
MaxChoices == 2
\* Lines a session file may already hold when the process starts.
MaxInitLines == 2

\* ------------------------------------------------------------ characters
LF == "\n"
QUOTE == "\""
BSL == "\\"
KeyRole == "\"role\""
KeyContent == "\"content\""

Last(s) == s[Len(s)]
Front(s) == SubSeq(s, 1, Len(s) - 1)
Range(s) == { s[i] : i \in 1..Len(s) }
IsPrefix(s, t) == Len(s) <= Len(t) /\ SubSeq(t, 1, Len(s)) = s

\* ------------------------------------------------------------------ data
\* enum Role, and the name serde gives each variant (rename_all = "lowercase").
Role == {"Assistant", "System", "User"}

RoleName(r) ==
    CASE r = "Assistant" -> "assistant"
      [] r = "System" -> "system"
      [] r = "User" -> "user"

\* struct ChatGptMessage
ChatGptMessage(r, c) == [role |-> r, content |-> c]

\* What the user can type or pipe in, and what the service can answer.
UserContents == { <<"Hello">>, <<"a", LF, "b">> }
ReplyMessages ==
    { ChatGptMessage("Assistant", <<"Hi there">>),
      ChatGptMessage("System", <<BSL, "n", QUOTE>>) }

\* ----------------------------------------------------- the JSON encoding
\* serde_json's string escaping of the characters it must escape.
EscapeCharNone(c) == <<c>>

EscapeChar(c) ==
    IF c = QUOTE THEN <<BSL, QUOTE>>
    ELSE IF c = BSL THEN <<BSL, BSL>>
    ELSE IF c = LF THEN <<BSL, "n">>
    ELSE <<c>>

RECURSIVE Escape(_)
Escape(s) == IF s = <<>> THEN <<>> ELSE EscapeChar(Head(s)) \o Escape(Tail(s))

\* #[derive(Serialize)] of ChatGptMessage: {"role":"<name>","content":"<text>"}
Serialize(m) ==
    <<"{", KeyRole, ":", QUOTE, RoleName(m.role), QUOTE, ",",
      KeyContent, ":", QUOTE>> \o Escape(m.content) \o <<QUOTE, "}">>

\* A JSON string body read from position i of line l (after its opening
\* quote) up to the closing quote; next is the position after that quote.
RECURSIVE ParseString(_, _, _)
ParseString(l, i, acc) ==
    IF i > Len(l) THEN [ok |-> FALSE]
    ELSE IF l[i] = QUOTE THEN [ok |-> TRUE, val |-> acc, next |-> i + 1]
    ELSE IF l[i] = LF THEN [ok |-> FALSE]
    ELSE IF l[i] = BSL THEN
        IF i + 1 > Len(l) THEN [ok |-> FALSE]
        ELSE IF l[i + 1] = "n" THEN ParseString(l, i + 2, Append(acc, LF))
        ELSE IF l[i + 1] \in {QUOTE, BSL}
             THEN ParseString(l, i + 2, Append(acc, l[i + 1]))
        ELSE [ok |-> FALSE]
    ELSE ParseString(l, i + 1, Append(acc, l[i]))

\* The variant a role name decodes to; an unknown name is a decode error.
RoleOfNameLenient(name) ==
    IF \E r \in Role : RoleName(r) = name
    THEN [ok |-> TRUE, val |-> CHOOSE r \in Role : RoleName(r) = name]
    ELSE [ok |-> TRUE, val |-> "User"]

RoleOfName(name) ==
    IF \E r \in Role : RoleName(r) = name
    THEN [ok |-> TRUE, val |-> CHOOSE r \in Role : RoleName(r) = name]
    ELSE [ok |-> FALSE]

At(l, i) == IF i \in 1..Len(l) THEN l[i] ELSE "<eof>"

\* #[derive(Deserialize)] of ChatGptMessage applied to one line, for lines
\* of the layout Serialize writes; anything else is a decode error.
Deserialize(l) ==
    IF ~(At(l, 1) = "{" /\ At(l, 2) = KeyRole /\ At(l, 3) = ":" /\ At(l, 4) = QUOTE)
    THEN [ok |-> FALSE]
    ELSE LET r == ParseString(l, 5, <<>>) IN
      IF ~r.ok THEN [ok |-> FALSE]
      ELSE IF Len(r.val) # 1 THEN [ok |-> FALSE]
      ELSE LET role == RoleOfName(r.val[1])
               n == r.next IN
        IF ~role.ok THEN [ok |-> FALSE]
        ELSE IF ~(At(l, n) = "," /\ At(l, n + 1) = KeyContent
                  /\ At(l, n + 2) = ":" /\ At(l, n + 3) = QUOTE)
        THEN [ok |-> FALSE]
        ELSE LET c == ParseString(l, n + 4, <<>>) IN
          IF ~c.ok THEN [ok |-> FALSE]
          ELSE IF ~(At(l, c.next) = "}" /\ c.next = Len(l)) THEN [ok |-> FALSE]
          ELSE [ok |-> TRUE, val |-> ChatGptMessage(role.val, c.val)]

\* The lines of a byte sequence: split at LF, a last line without LF counts.
RECURSIVE Lines(_)
Lines(b) ==
    IF b = <<>> THEN <<>>
    ELSE IF \E i \in 1..Len(b) : b[i] = LF
    THEN LET k == CHOOSE i \in 1..Len(b) :
                     b[i] = LF /\ \A j \in 1..(i - 1) : b[j] # LF
         IN <<SubSeq(b, 1, k - 1)>> \o Lines(SubSeq(b, k + 1, Len(b)))
    ELSE <<b>>

\* json_lines(path)?.collect::<io::Result<Vec<_>>>(): every line decoded,
\* the first failure failing the whole read.
DecodeAll(ls) ==
    IF \E i \in 1..Len(ls) : ~Deserialize(ls[i]).ok
    THEN [ok |-> FALSE]
    ELSE [ok |-> TRUE, val |-> [i \in 1..Len(ls) |-> Deserialize(ls[i]).val]]

\* fn read_session_messages
read_session_messages(file) ==
    IF file.exists THEN DecodeAll(Lines(file.bytes))
    ELSE [ok |-> TRUE, val |-> <<>>]

\* ------------------------------------------------------------- the files
NoFile == [exists |-> FALSE, bytes |-> <<>>]
FileOf(b) == [exists |-> TRUE, bytes |-> b]

\* File::options().write(true).append(true).create(true).open(filename):
\* an absent file is created empty, an existing one keeps its bytes.
open_file_for_appending_truncating(file) == FileOf(<<>>)

open_file_for_appending(file) == FileOf(file.bytes)

\* How a write of `bytes` that fails can leave the file: some prefix of the
\* bytes reached it.  One prefix of each kind is kept: nothing, a part, all
\* but the last byte, and everything (only the flush failed).
FailedWrites(file, bytes) ==
    { FileOf(file.bytes \o SubSeq(bytes, 1, k)) :
        k \in {0, Len(bytes) \div 2, Len(bytes) - 1, Len(bytes)} }

\* SessionAppendListener::on_message: the JSON line, then a flush.
SessionLineUnterminated(m) == Serialize(m)

SessionLine(m) == Serialize(m) \o <<LF>>

\* OutputAppendListener::on_message: writeln!(writer, "{}\n", content).
OutputText(m) == m.content \o <<LF, LF>>

\* Session files a run can find: absent, or up to MaxInitLines lines, each
\* a line an earlier run wrote or a line with a role serde does not know;
\* the last line with or without its terminator.
InitMessages ==
    { ChatGptMessage("User", <<"Hello">>),
      ChatGptMessage("Assistant", <<"Hi", LF, QUOTE, "there", QUOTE>>) }

BadRoleLine ==
    <<"{", KeyRole, ":", QUOTE, "tool", QUOTE, ",",
      KeyContent, ":", QUOTE, "x", QUOTE, "}">>

InitLines == { Serialize(m) : m \in InitMessages } \cup { BadRoleLine }

RECURSIVE JoinLines(_)
JoinLines(ls) ==
    IF ls = <<>> THEN <<>> ELSE Head(ls) \o <<LF>> \o JoinLines(Tail(ls))

InitSessionFiles ==
    LET seqs == UNION { [1..k -> InitLines] : k \in 0..MaxInitLines }
        whole == { JoinLines(ls) : ls \in seqs }
        cut == { Front(b) : b \in whole \ {<<>>} }
    IN {NoFile} \cup { FileOf(b) : b \in whole \cup cut }

InitOutputFiles == { NoFile, FileOf(<<"earlier", LF, LF>>) }

\* ------------------------------------------------------------- the state
VARIABLES
    pc,          \* where main / repl_loop / print_response / push stands
    args,        \* Args and the environment: api_key, session, output, tty
    sessionFile, \* the file --session names
    outputFile,  \* the file --output names
    messages,    \* ChatMessages.messages
    listeners,   \* ChatMessages.listeners, "session" and "output"
    pushing,     \* the frame of the push in progress, <<>> when none
    request,     \* the messages slice handed to get_chatgpt_response
    choices,     \* the choice list of the response, until the reply is shown
    mesg,        \* the local mesg of repl_loop / print_response, <<>> when unset
    display,     \* what was shown on the terminal or printed to stdout
    \* history of the run, read by the properties only
    files0,      \* the session and output files as the process found them
    loaded,      \* the messages from_file put in the ledger
    pushed,      \* the messages whose push returned Ok, in order
    observed,    \* every on_message call: [sink, msg, ok]
    input,       \* the texts read: the lines of repl_loop, or all of stdin
    trace        \* the driver's events, in order

vars == <<pc, args, sessionFile, outputFile, messages, listeners, pushing,
          request, choices, mesg, display, files0, loaded, pushed,
          observed, input, trace>>

files == <<sessionFile, outputFile>>
ledger == <<messages, listeners>>
history == <<files0, loaded, pushed, observed, input, trace>>

Init ==
    /\ pc = "start"
    /\ args \in [api_key : BOOLEAN, session : BOOLEAN, output : BOOLEAN,
                 tty : BOOLEAN]
    /\ sessionFile \in (IF args.session THEN InitSessionFiles ELSE {NoFile})
    /\ outputFile \in (IF args.output THEN InitOutputFiles ELSE {NoFile})
    /\ messages = <<>>
    /\ listeners = <<>>
    /\ pushing = <<>>
    /\ request = <<>>
    /\ choices = <<>>
    /\ mesg = <<>>
    /\ display = <<>>
    /\ files0 = [session |-> sessionFile, output |-> outputFile]
    /\ loaded = <<>>
    /\ pushed = <<>>
    /\ observed = <<>>
    /\ input = <<>>
    /\ trace = <<>>

\* ------------------------------------------------------------ main: setup
\* main 238-241, `.expect("OpenAI API key not set")`: where main goes with
\* and without a key.
AfterApiKeyUnchecked(has_key) == "ledger"

AfterApiKey(has_key) == IF has_key THEN "ledger" ELSE "panic"

\* main 238-241: the key from --api-key or OPENAI_API_KEY, else a panic.
ResolveApiKey ==
    /\ pc = "start"
    /\ pc' = AfterApiKey(args.api_key)
    /\ UNCHANGED <<args, files, ledger, pushing, request, choices, mesg,
                   display, history>>

\* main 252: no --session, ChatMessages::new().
New ==
    /\ pc = "ledger"
    /\ ~args.session
    /\ messages' = <<>>
    /\ listeners' = <<>>
    /\ pc' = "output"
    /\ UNCHANGED <<args, files, pushing, request, choices, mesg, display,
                   history>>

\* from_file 92-95: the on_message calls made for the messages it loads:
\* none, the struct is built with the messages and an empty listener list.
DeliveredOnLoadReplayed(ms) ==
    [i \in 1..Len(ms) |-> [sink |-> "session", msg |-> ms[i], ok |-> TRUE]]

DeliveredOnLoad(ms) == <<>>

\* main 245-246: ChatMessages::from_file(..).expect(..); the read fails on
\* an I/O error or on a line that does not decode.
FromFile ==
    /\ pc = "ledger"
    /\ args.session
    /\ \E io_ok \in BOOLEAN :
         LET r == read_session_messages(sessionFile) IN
           IF io_ok /\ r.ok
           THEN /\ messages' = r.val
                /\ listeners' = <<>>
                /\ loaded' = r.val
                /\ observed' = observed \o DeliveredOnLoad(r.val)
                /\ pc' = "session_listener"
           ELSE /\ pc' = "panic"
                /\ UNCHANGED <<ledger, loaded, observed>>
    /\ UNCHANGED <<args, files, pushing, request, choices, mesg, display,
                   files0, pushed, input, trace>>

\* ChatMessages::register
register(ls, l) == Append(ls, l)

\* main 247-249: SessionAppendListener::new(..).expect(..), then register.
RegisterSession ==
    /\ pc = "session_listener"
    /\ \/ /\ sessionFile' = open_file_for_appending(sessionFile)
          /\ listeners' = register(listeners, "session")
          /\ pc' = "output"
       \/ /\ pc' = "panic"
          /\ UNCHANGED <<sessionFile, listeners>>
    /\ UNCHANGED <<args, outputFile, messages, pushing, request, choices,
                   mesg, display, history>>

\* main 255-259: with --output, OutputAppendListener::new(..).expect(..),
\* then register.
RegisterOutput ==
    /\ pc = "output"
    /\ \/ /\ args.output
          /\ outputFile' = open_file_for_appending(outputFile)
          /\ listeners' = register(listeners, "output")
          /\ pc' = "stdin"
       \/ /\ args.output
          /\ pc' = "panic"
          /\ UNCHANGED <<outputFile, listeners>>
       \/ /\ ~args.output
          /\ pc' = "stdin"
          /\ UNCHANGED <<outputFile, listeners>>
    /\ UNCHANGED <<args, sessionFile, messages, pushing, request, choices,
                   mesg, display, history>>

\* main 263: stdin.is_tty() selects repl_loop or the single shot.
SelectMode ==
    /\ pc = "stdin"
    /\ pc' = IF args.tty THEN "read_line" ELSE "read_to_string"
    /\ UNCHANGED <<args, files, ledger, pushing, request, choices, mesg,
                   display, history>>

\* ------------------------------------------------------ ChatMessages::push
\* The frame of a push entered with message m: the listener to call next,
\* where the caller continues after Ok, and (for the properties) the ledger
\* and the number of on_message calls as push found them.
Frame(m, kind, ret) ==
    [msg |-> m, i |-> 1, kind |-> kind, ret |-> ret,
     before |-> messages, seen |-> Len(observed)]

\* What a listener's on_message can do to its file, and its result.
SessionAppendListener_on_message_unflushed(file, m) ==
    { [ok |-> TRUE, file |-> file] }

SessionAppendListener_on_message(file, m) ==
    { [ok |-> TRUE, file |-> FileOf(file.bytes \o SessionLine(m))] }
    \cup { [ok |-> FALSE, file |-> f] : f \in FailedWrites(file, SessionLine(m)) }

OutputAppendListener_on_message(file, m) ==
    { [ok |-> TRUE, file |-> FileOf(file.bytes \o OutputText(m))] }
    \cup { [ok |-> FALSE, file |-> f] : f \in FailedWrites(file, OutputText(m)) }

\* push 104, `listener.on_message(&message)?`: where push stands after the
\* i-th listener returned; Err leaves push, and `?` in the driver leaves main.
AfterListenerIgnoringErr(ok, i) == [pc |-> "push", i |-> i + 1]

AfterListenerSkipsNext(ok, i) ==
    IF ok THEN [pc |-> "push", i |-> i + 2] ELSE [pc |-> "error", i |-> i]

AfterListener(ok, i) ==
    IF ok THEN [pc |-> "push", i |-> i + 1] ELSE [pc |-> "error", i |-> i]

\* push 106, self.messages.push(message).
CommitFront(ms, m) == <<m>> \o ms

Commit(ms, m) == Append(ms, m)

\* push 103-105: one turn of the loop over the listeners.
PushListener ==
    /\ pc = "push"
    /\ LET f == pushing[1] IN
       /\ f.i <= Len(listeners)
       /\ LET l == listeners[f.i]
              outs == IF l = "session"
                      THEN SessionAppendListener_on_message(sessionFile, f.msg)
                      ELSE OutputAppendListener_on_message(outputFile, f.msg)
          IN \E o \in outs :
               /\ IF l = "session"
                  THEN sessionFile' = o.file /\ UNCHANGED outputFile
                  ELSE outputFile' = o.file /\ UNCHANGED sessionFile
               /\ observed' = Append(observed,
                                     [sink |-> l, msg |-> f.msg, ok |-> o.ok])
               /\ pc' = AfterListener(o.ok, f.i).pc
               /\ pushing' = <<[f EXCEPT !.i = AfterListener(o.ok, f.i).i]>>
               /\ trace' = trace \o (IF pc' = "push" THEN <<>> ELSE <<"push_err">>)
    /\ UNCHANGED <<args, ledger, request, choices, mesg, display,
                   files0, loaded, pushed, input>>

\* push 106-107: every listener returned Ok; the message joins the ledger
\* and the caller goes on.
PushCommit ==
    /\ pc = "push"
    /\ LET f == pushing[1] IN
       /\ f.i > Len(listeners)
       /\ messages' = Commit(messages, f.msg)
       /\ pushed' = Append(pushed, f.msg)
       /\ pc' = f.ret
    /\ pushing' = <<>>
    /\ mesg' = <<>>
    /\ trace' = Append(trace, "push_ok")
    /\ UNCHANGED <<args, files, listeners, request, choices, display, files0,
                   loaded, observed, input>>

\* ------------------------------------------------------------ the drivers
\* reedline's Signal, as repl_loop matches it.
Signals ==
    { [kind |-> "Success", content |-> c] : c \in UserContents }
    \cup { [kind |-> "CtrlD", content |-> <<>>],
           [kind |-> "CtrlC", content |-> <<>>] }

\* repl_loop 173-196: the arm of the match; a line goes on to the push,
\* CtrlD and CtrlC break out of the loop and repl_loop returns Ok.
AfterSignalCtrlCIgnored(kind) ==
    IF kind = "Success" THEN "push"
    ELSE IF kind = "CtrlC" THEN "read_line" ELSE "done"

AfterSignalNotWaiting(kind) == IF kind = "Success" THEN "call" ELSE "done"

AfterSignal(kind) == IF kind = "Success" THEN "push" ELSE "done"

\* repl_loop 175-178 / main 267: the user message made of the text read.
UserMessage(c) == ChatGptMessage("User", c)

\* repl_loop 172-178 and 193-195: one read_line, then the match; Err leaves
\* main through `?`.
ReadLine ==
    /\ pc = "read_line"
    /\ \/ \E sig \in Signals :
            /\ sig.kind = "Success" => Len(input) < MaxRounds
            /\ pc' = AfterSignal(sig.kind)
            /\ IF sig.kind = "Success"
               THEN /\ input' = Append(input, sig.content)
                    /\ pushing' = <<Frame(UserMessage(sig.content), "user", "call")>>
                    /\ trace' = trace \o <<"line", "push_user">>
               ELSE /\ trace' = Append(trace, "eof")
                    /\ UNCHANGED <<pushing, input>>
       \/ /\ pc' = "error"
          /\ trace' = Append(trace, "read_err")
          /\ UNCHANGED <<pushing, input>>
    /\ UNCHANGED <<args, files, ledger, request, choices, mesg, display,
                   files0, loaded, pushed, observed>>

\* main 266-267: the whole of stdin as one user message, then its push.
ReadToString ==
    /\ pc = "read_to_string"
    /\ \/ \E c \in UserContents :
            /\ input' = Append(input, c)
            /\ pushing' = <<Frame(UserMessage(c), "user", "call")>>
            /\ pc' = "push"
            /\ trace' = trace \o <<"stdin", "push_user">>
       \/ /\ pc' = "error"
          /\ trace' = Append(trace, "read_err")
          /\ UNCHANGED <<pushing, input>>
    /\ UNCHANGED <<args, files, ledger, request, choices, mesg, display,
                   files0, loaded, pushed, observed>>

\* repl_loop 183 / print_response 227: the slice handed to the request.
MessagesSliceLastOnly(ms) == <<Last(ms)>>

MessagesSlice(ms) == ms

\* repl_loop 182-183 / print_response 227: get_chatgpt_response is called
\* with &messages.messages.
Call ==
    /\ pc = "call"
    /\ request' = MessagesSlice(messages)
    /\ pc' = "await"
    /\ trace' = Append(trace, "call")
    /\ UNCHANGED <<args, files, ledger, pushing, choices, mesg, display,
                   files0, loaded, pushed, observed, input>>

\* The responses the service can give: up to MaxChoices choices.
Responses == UNION { [1..k -> ReplyMessages] : k \in 0..MaxChoices }

\* choices.pop(): the last element, None on an empty list.
PopFirst(cs) == IF cs = <<>> THEN <<>> ELSE <<Head(cs)>>

Pop(cs) == IF cs = <<>> THEN <<>> ELSE <<Last(cs)>>

\* repl_loop 185 / print_response 228, `resp.await?`: where an Err of the
\* request sends the driver.
AfterRequestErrRetry == "call"

AfterRequestErr == "error"

\* repl_loop 185 / print_response 228, `.pop().unwrap()`: a popped choice
\* goes on to be shown, None panics.
AfterPopNoneIsErr(popped) == IF popped = <<>> THEN "error" ELSE "show"

AfterPop(popped) == IF popped = <<>> THEN "panic" ELSE "show"

\* repl_loop 185 / print_response 228: resp.await?.choices.pop().unwrap()
\* .message; Err leaves main through `?`, an empty list panics in unwrap.
Await ==
    /\ pc = "await"
    /\ \/ \E cs \in Responses :
            /\ choices' = cs
            /\ mesg' = Pop(cs)
            /\ pc' = AfterPop(mesg')
            /\ trace' = Append(trace, IF cs = <<>> THEN "resp_empty" ELSE "resp_ok")
       \/ /\ pc' = AfterRequestErr
          /\ trace' = Append(trace, "resp_err")
          /\ UNCHANGED <<choices, mesg>>
    /\ request' = <<>>
    /\ UNCHANGED <<args, files, ledger, pushing, display, files0,
                   loaded, pushed, observed, input>>

\* What the reply looks like: println!("{}", content) on stdout, or the
\* skin's rendering of the content where the spinner was.
ShownAsJson(m) == [styled |-> args.tty, text |-> Serialize(m)]

Shown(m) ==
    IF args.tty THEN [styled |-> TRUE, text |-> m.content]
    ELSE [styled |-> FALSE, text |-> m.content \o <<LF>>]

\* repl_loop 187-190 stop_with_message / print_response 230 println!: the
\* reply is written to the terminal or standard output, once.
println_twice(out, m) == out \o <<Shown(m), Shown(m)>>

println(out, m) == Append(out, Shown(m))

\* Where the driver goes once the reply's push returned Ok: repl_loop
\* 191-197 loops, print_response 231-232 returns Ok.
AfterReplyNoRead(tty) == IF tty THEN "call" ELSE "done"

AfterReply(tty) == IF tty THEN "read_line" ELSE "done"

\* repl_loop 187-191 / print_response 230-231: the reply is displayed, then
\* its push starts; the rest of the response was dropped at line 185 / 228.
Show ==
    /\ pc = "show"
    /\ display' = println(display, mesg[1])
    /\ pushing' = <<Frame(mesg[1], "reply", AfterReply(args.tty))>>
    /\ pc' = "push"
    /\ choices' = <<>>
    /\ trace' = trace \o <<"display", "push_reply">>
    /\ UNCHANGED <<args, files, ledger, request, mesg,
                   files0, loaded, pushed, observed, input>>

Next ==
    \/ ResolveApiKey
    \/ New
    \/ FromFile
    \/ RegisterSession
    \/ RegisterOutput
    \/ SelectMode
    \/ ReadLine
    \/ ReadToString
    \/ PushListener
    \/ PushCommit
    \/ Call
    \/ Await
    \/ Show

Spec == Init /\ [][Next]_vars

\* ------------------------------------------------------ reading the state
\* How often event e occurs in the trace.
Count(e) == Cardinality({ i \in 1..Len(trace) : trace[i] = e })

LastEvent == IF trace = <<>> THEN "" ELSE Last(trace)

IsSession(o) == o.sink = "session"
IsSessionOk(o) == o.sink = "session" /\ o.ok

\* The messages the session listener's on_message returned Ok for, in order.
SessionWritten ==
    LET os == SelectSeq(observed, IsSessionOk)
    IN [i \in 1..Len(os) |-> os[i].msg]

\* The on_message calls made by the push in progress (or the push that failed).
CallsOfPush == SubSeq(observed, pushing[1].seen + 1, Len(observed))

Registered(l) == \E i \in 1..Len(listeners) : listeners[i] = l

\* A push has returned Err.
PushFailed == pc = "error" /\ pushing # <<>>

\* The file ends where a new line can start.
Terminated(file) == file.bytes = <<>> \/ Last(file.bytes) = LF

RoleNames == { RoleName(r) : r \in Role }

\* A line the loader must refuse: it does not decode, or its role is none
\* of user, assistant, system.
BadLine(l) == ~Deserialize(l).ok \/ At(l, 5) \notin RoleNames

HasBadLine(file) ==
    file.exists /\ \E i \in 1..Len(Lines(file.bytes)) : BadLine(Lines(file.bytes)[i])

\* The bytes of the session lines of a sequence of messages.
RECURSIVE SessionBytes(_)
SessionBytes(ms) ==
    IF ms = <<>> THEN <<>>
    ELSE Serialize(Head(ms)) \o <<LF>> \o SessionBytes(Tail(ms))

\* ------------------------------------------------------------------- C1
\* C1: the ledger is always the loaded messages followed by exactly the
\* messages whose push returned Ok, in push order, and every step leaves the
\* earlier ledger as a prefix of the later one.
C1_AppendOnlyLedger ==
    /\ [](messages = loaded \o pushed)
    /\ [][IsPrefix(messages, messages')]_vars

C1_Witness ==
    /\ Len(loaded) >= 1
    /\ Len(pushed) >= 3
    /\ messages = loaded \o pushed

\* ------------------------------------------------------------------- C2
\* C2: while a push runs, and after it failed, the listeners called for it
\* are the first ones in registration order, each once and with its message,
\* all Ok but the one that failed; the failing one is the last called, push
\* returns Err, and the ledger is what the push found (the loaded messages
\* plus the earlier successful pushes).
C2_FailedPushIsAtomic ==
    pushing # <<>> =>
      LET f == pushing[1]
          cs == CallsOfPush
      IN /\ Len(cs) = (IF pc = "error" THEN f.i ELSE f.i - 1)
         /\ Len(cs) <= Len(listeners)
         /\ \A j \in 1..Len(cs) :
              cs[j] = [sink |-> listeners[j], msg |-> f.msg, ok |-> j < f.i]
         /\ messages = f.before
         /\ Len(messages) = Len(loaded) + Len(pushed)
         /\ pc \in {"push", "error"}
         /\ pc = "error" => LastEvent = "push_err" /\ ~cs[Len(cs)].ok

C2_Witness ==
    /\ PushFailed
    /\ Len(listeners) = 2
    /\ pushing[1].i = 1
    /\ Len(CallsOfPush) = 1
    /\ Len(pushed) >= 1
    /\ messages = pushing[1].before

\* ------------------------------------------------------------------- C3
\* C3: in both modes the reply the driver holds after a non-empty response is
\* the last element of the choice list; that message is the one whose push
\* starts when it is shown and the one a successful push adds to the ledger;
\* and one reply push is started per non-empty response.
C3_LastChoiceIsReply ==
    /\ [](pc = "show" => choices # <<>> /\ mesg = <<Last(choices)>>)
    /\ [][pc = "show" =>
            /\ pushing' # <<>>
            /\ pushing'[1].kind = "reply"
            /\ pushing'[1].msg = Last(choices)]_vars
    /\ [][(pushing # <<>> /\ pushing[1].kind = "reply" /\ pushing' = <<>>) =>
            messages' = Append(messages, pushing[1].msg)]_vars
    /\ [](Count("push_reply") = Count("resp_ok") - (IF pc = "show" THEN 1 ELSE 0))

C3_Witness ==
    /\ pc = "show"
    /\ Len(choices) >= 2
    /\ choices[1] # Last(choices)
    /\ mesg = <<Last(choices)>>
    /\ Count("resp_ok") = 2

\* ------------------------------------------------------------------- C4
\* C4: from an absent or empty session file, once the session listener has
\* written N messages (every on_message Ok), read_session_messages of the
\* file returns exactly those N messages, in order, roles and contents equal.
C4_RoundTrip ==
    (/\ ~files0.session.exists \/ files0.session.bytes = <<>>
     /\ \A i \in 1..Len(observed) : IsSession(observed[i]) => observed[i].ok)
    => read_session_messages(sessionFile) = [ok |-> TRUE, val |-> SessionWritten]

C4_Witness ==
    /\ ~files0.session.exists
    /\ Len(SessionWritten) >= 3
    /\ \E i \in 1..Len(SessionWritten) : SessionWritten[i].role = "System"
    /\ \E i \in 1..Len(SessionWritten) : SessionWritten[i].role = "Assistant"
    /\ \E i \in 1..Len(SessionWritten) : LF \in Range(SessionWritten[i].content)
    /\ read_session_messages(sessionFile) = [ok |-> TRUE, val |-> SessionWritten]

\* ------------------------------------------------------------------- C5
\* C5: with a session file that holds a line that does not decode (a role
\* other than user, assistant, system among them) the load fails, and main
\* panics in from_file: no listener is registered, neither file is opened
\* or written, the ledger holds nothing, nothing is pushed, no request made.
C5_BadLineFailsLoad ==
    (args.session /\ HasBadLine(files0.session)) =>
      /\ ~read_session_messages(files0.session).ok
      /\ pc \in {"start", "ledger", "panic"}
      /\ listeners = <<>>
      /\ messages = <<>>
      /\ sessionFile = files0.session
      /\ outputFile = files0.output
      /\ pushing = <<>> /\ pushed = <<>> /\ observed = <<>>
      /\ input = <<>> /\ trace = <<>> /\ request = <<>>

C5_Witness ==
    /\ args.session /\ args.api_key
    /\ Len(Lines(files0.session.bytes)) = 2
    /\ Deserialize(Lines(files0.session.bytes)[1]).ok
    /\ Lines(files0.session.bytes)[2] = BadRoleLine
    /\ pc = "panic"
    /\ messages = <<>>

\* ------------------------------------------------------------------- C6
\* C6: when the single shot (stdin not a terminal) returns Ok, there was one
\* request and two pushes, both Ok; stdout holds the reply's content (as
\* println! writes it) and nothing else; and the ledger is the loaded
\* messages, the user message holding all of stdin, and the reply.
C6_SingleShot ==
    (pc = "done" /\ ~args.tty) =>
      /\ Count("call") = 1 /\ Count("resp_ok") = 1
      /\ Count("push_user") = 1 /\ Count("push_reply") = 1
      /\ Count("push_ok") = 2 /\ Count("stdin") = 1 /\ Len(input) = 1
      /\ Len(pushed) = 2
      /\ pushed[1] = ChatGptMessage("User", input[1])
      /\ pushed[2] \in ReplyMessages
      /\ messages = loaded \o pushed
      /\ display = <<[styled |-> FALSE, text |-> pushed[2].content \o <<LF>>]>>

C6_Witness ==
    /\ pc = "done" /\ ~args.tty
    /\ input = << <<"Hello">> >>
    /\ loaded = <<>>
    /\ messages = <<ChatGptMessage("User", <<"Hello">>),
                    ChatGptMessage("Assistant", <<"Hi there">>)>>
    /\ display = <<[styled |-> FALSE, text |-> <<"Hi there", LF>>]>>

\* ------------------------------------------------------------------- C7
\* C7: once repl_loop has read CtrlD or CtrlC it has returned Ok and nothing
\* follows: no push is in progress, no request in flight, and the event stays
\* the last of the run; when no line was read before it, the ledger is the
\* loaded messages, no listener was called, no request was made and the
\* session file holds the bytes it held at the start.
C7_EndOfInput ==
    LastEvent = "eof" =>
      /\ pc = "done" /\ args.tty
      /\ pushing = <<>> /\ request = <<>> /\ mesg = <<>>
      /\ Count("eof") = 1
      /\ Count("call") = Len(input) /\ Count("push_ok") = 2 * Len(input)
      /\ input = <<>> =>
           /\ messages = loaded /\ pushed = <<>>
           /\ observed = <<>> /\ display = <<>>
           /\ trace = <<"eof">>
           /\ sessionFile.bytes = files0.session.bytes

C7_Witness ==
    /\ LastEvent = "eof" /\ pc = "done"
    /\ input = <<>>
    /\ Len(listeners) = 2
    /\ Len(loaded) >= 1 /\ messages = loaded

\* ------------------------------------------------------------------- C8
\* C8 as stated: with the session listener registered, whenever no push is
\* in progress (a failed push included) the session file decodes to the
\* ledger.
C8_AsStated ==
    (Registered("session") /\ pc # "push") =>
      read_session_messages(sessionFile) = [ok |-> TRUE, val |-> messages]

\* C8 amended: with the session listener registered on a file that was
\* absent, empty or ended in a line terminator, whenever no push is in
\* progress and none has failed the session file decodes to the ledger;
\* after a failed push the file is the file as found, the lines of the
\* committed messages, and a prefix (nothing up to all) of the line of the
\* message whose push failed.
C8_FileMatchesLedger ==
    Registered("session") =>
      /\ (pc # "push" /\ ~PushFailed /\ Terminated(files0.session)) =>
            read_session_messages(sessionFile) = [ok |-> TRUE, val |-> messages]
      /\ PushFailed =>
            LET base == files0.session.bytes \o SessionBytes(pushed)
                line == SessionLine(pushing[1].msg)
            IN /\ IsPrefix(base, sessionFile.bytes)
               /\ IsPrefix(sessionFile.bytes, base \o line)

C8_Witness ==
    /\ Registered("session") /\ Registered("output")
    /\ pc = "read_line"
    /\ Len(loaded) >= 1 /\ Len(pushed) >= 2
    /\ read_session_messages(sessionFile) = [ok |-> TRUE, val |-> messages]

\* ------------------------------------------------------------------- C9
\* C9: once a request has failed the driver has left main with the error and
\* the failure stays the last event of the run: one request per text read,
\* no retry, no reply held, shown or pushed for the round; the user message
\* of the round is the last of the ledger, and with the session listener
\* registered the file is the file as found followed by the lines of every
\* message pushed in this run.
C9_RequestFailure ==
    LastEvent = "resp_err" =>
      /\ pc = "error"
      /\ Count("resp_err") = 1
      /\ Count("call") = Len(input)
      /\ Count("resp_ok") = Len(input) - 1
      /\ Len(display) = Len(input) - 1
      /\ Count("push_reply") = Len(input) - 1
      /\ pushing = <<>> /\ mesg = <<>> /\ request = <<>>
      /\ messages = loaded \o pushed
      /\ Len(pushed) = 2 * Len(input) - 1
      /\ Last(messages) = ChatGptMessage("User", Last(input))
      /\ Registered("session") =>
           sessionFile.bytes = files0.session.bytes \o SessionBytes(pushed)

C9_Witness ==
    /\ LastEvent = "resp_err" /\ pc = "error"
    /\ Len(input) = 2
    /\ Registered("session")
    /\ Len(loaded) >= 1
    /\ Len(messages) = Len(loaded) + 3

\* ------------------------------------------------------------------ C10
\* C10: while a request is in flight, in either mode, the slice it was given
\* is the whole ledger: the loaded messages, then every message pushed in
\* this run, the user message of this round last.
C10_RequestIsWholeLedger ==
    pc = "await" =>
      /\ request = messages
      /\ request = loaded \o pushed
      /\ Len(request) = Len(loaded) + 2 * Len(input) - 1
      /\ Last(request) = ChatGptMessage("User", Last(input))

C10_Witness ==
    /\ pc = "await"
    /\ Len(loaded) >= 1
    /\ Len(pushed) = 3
    /\ request = loaded \o pushed

\* ------------------------------------------------------------------ C11
\* The messages on_message of a listener was called with, in call order.
SeenBy(l) ==
    LET IsBy(o) == o.sink = l
        os == SelectSeq(observed, IsBy)
    IN [i \in 1..Len(os) |-> os[i].msg]

\* The messages push was entered with in this run, in order.
Attempts == pushed \o (IF pushing = <<>> THEN <<>> ELSE <<pushing[1].msg>>)

\* C11 as stated: with both listeners registered each sees the messages in
\* push order, and whenever no push is in progress (a failed push included)
\* the two have seen the same sequence.
C11_AsStated ==
    (Registered("session") /\ Registered("output")) =>
      /\ IsPrefix(SeenBy("session"), Attempts)
      /\ IsPrefix(SeenBy("output"), Attempts)
      /\ pc # "push" => SeenBy("session") = SeenBy("output")

\* C11 amended: with both listeners registered each sees the messages in
\* push order; whenever no push is in progress and none has failed, both
\* have seen exactly the messages pushed in this run; after a failed push
\* the session listener has seen the failing message and the output
\* listener has seen it only if the session listener returned Ok.
C11_SameOrderForBoth ==
    (Registered("session") /\ Registered("output")) =>
      /\ IsPrefix(SeenBy("session"), Attempts)
      /\ IsPrefix(SeenBy("output"), Attempts)
      /\ (pc # "push" /\ ~PushFailed) =>
            SeenBy("session") = pushed /\ SeenBy("output") = pushed
      /\ PushFailed =>
            /\ SeenBy("session") = Attempts
            /\ SeenBy("output") = (IF pushing[1].i = 1 THEN pushed ELSE Attempts)

C11_Witness ==
    /\ Registered("session") /\ Registered("output")
    /\ pc = "read_line"
    /\ Len(pushed) >= 2
    /\ SeenBy("session") = pushed /\ SeenBy("output") = pushed

\* ------------------------------------------------------------------ C12
\* C12: with the session listener registered, in every state the session
\* file is the file as found followed by the line of every message pushed to
\* the ledger in this run, and beyond that holds nothing, or, while a push
\* runs or after it failed, at most the line (or a part of it) of the one
\* message in flight.  When the file as found ended in a line terminator
\* (or was empty or absent), the first lines of the file decode to the
\* ledger's messages, one each, and at most one line follows them.
C12_WrittenBeforeCommitted ==
    Registered("session") =>
      LET base == files0.session.bytes \o SessionBytes(pushed)
          ls == Lines(sessionFile.bytes)
      IN /\ IsPrefix(base, sessionFile.bytes)
         /\ IF pushing = <<>>
            THEN sessionFile.bytes = base
            ELSE IsPrefix(sessionFile.bytes,
                          base \o Serialize(pushing[1].msg) \o <<LF>>)
         /\ Terminated(files0.session) =>
              /\ Len(messages) <= Len(ls) /\ Len(ls) <= Len(messages) + 1
              /\ \A i \in 1..Len(messages) :
                   Deserialize(ls[i]) = [ok |-> TRUE, val |-> messages[i]]

C12_Witness ==
    /\ Registered("session") /\ Registered("output")
    /\ pc = "push" /\ pushing[1].i = 2
    /\ Len(loaded) >= 1 /\ Len(pushed) >= 1
    /\ Len(Lines(sessionFile.bytes)) = Len(messages) + 1
    /\ Deserialize(Last(Lines(sessionFile.bytes))) =
          [ok |-> TRUE, val |-> pushing[1].msg]

\* ------------------------------------------------------------------ C13
CountIn(tr, e) == Cardinality({ i \in 1..Len(tr) : tr[i] = e })

\* Requests issued and not yet answered, and pushes entered, up to trace tr.
InFlight(tr) ==
    CountIn(tr, "call") - CountIn(tr, "resp_ok") - CountIn(tr, "resp_err")
        - CountIn(tr, "resp_empty")

PushesBegun(tr) == CountIn(tr, "push_user") + CountIn(tr, "push_reply")

\* C13: at most one request is in flight, and exactly while the driver waits
\* for it; a push is in progress only while the driver is inside push (or
\* has left main with its error); a push is entered, a request is issued and
\* input is read only when no push is in progress and no request in flight.
C13_OneThingAtATime ==
    /\ [](/\ InFlight(trace) = (IF pc = "await" THEN 1 ELSE 0)
          /\ (request # <<>>) = (pc = "await")
          /\ pc = "await" => pushing = <<>>
          /\ pushing # <<>> => pc \in {"push", "error"}
          /\ Len(pushing) <= 1)
    /\ [][PushesBegun(trace') > PushesBegun(trace) =>
            /\ pc # "push" /\ request = <<>> /\ InFlight(trace) = 0
            /\ pushing = <<>>
            /\ PushesBegun(trace') = PushesBegun(trace) + 1]_vars
    /\ [][CountIn(trace', "call") > CountIn(trace, "call") =>
            pc # "push" /\ pushing = <<>> /\ InFlight(trace) = 0]_vars
    /\ [][input' # input =>
            pc \notin {"push", "await"} /\ pushing = <<>> /\ request = <<>>]_vars

C13_Witness ==
    /\ pc = "await"
    /\ Count("call") = 2
    /\ InFlight(trace) = 1
    /\ pushing = <<>>
    /\ Len(listeners) = 2

\* ------------------------------------------------------------------ C14
\* One round of repl_loop, and the events that can stand in an event's
\* place as the last event of the run.
Round ==
    <<"line", "push_user", "push_ok", "call",
      "resp_ok", "display", "push_reply", "push_ok">>

Enders(k) ==
    CASE k = 1 -> {"eof", "read_err"}
      [] k \in {3, 8} -> {"push_err"}
      [] k = 5 -> {"resp_err", "resp_empty"}
      [] OTHER -> {}

\* C14: in interactive mode the events of the run are whole rounds (line
\* read, user push, its Ok, request, response, display, reply push, its Ok)
\* in that order, the last round possibly cut short by the event that ends
\* the run; the driver reads only between rounds; the messages pushed in
\* this run alternate the user message of the line read and a reply; and
\* the requests made number the successful user pushes, or one less while
\* the request of the user push that just returned is still to be issued.
C14_RoundsAlternate ==
    args.tty =>
      /\ \A i \in 1..Len(trace) :
           LET k == ((i - 1) % 8) + 1
           IN \/ trace[i] = Round[k]
              \/ i = Len(trace) /\ trace[i] \in Enders(k)
      /\ \A j \in 1..Len(pushed) :
           IF j % 2 = 1
           THEN pushed[j] = ChatGptMessage("User", input[(j + 1) \div 2])
           ELSE pushed[j] \in ReplyMessages
      /\ Count("line") = Len(input)
      /\ Count("call") =
            ((Len(pushed) + 1) \div 2) - (IF pc = "call" THEN 1 ELSE 0)
      /\ pc = "read_line" => Len(trace) % 8 = 0 /\ Len(pushed) = 2 * Len(input)
      /\ pc = "call" => Len(trace) % 8 = 3
      /\ pc = "await" => Len(trace) % 8 = 4
      /\ pc = "show" => Len(trace) % 8 = 5

C14_Witness ==
    /\ args.tty
    /\ pc = "call"
    /\ Len(input) = 2
    /\ Len(pushed) = 3
    /\ Count("call") = 1

\* ------------------------------------------------------------------ C15
\* The run is over: main returned Ok or Err, or panicked.
Ended == pc \in {"done", "error", "panic"}

SessionWritesOk == \A i \in 1..Len(observed) : IsSession(observed[i]) => observed[i].ok

\* C15 as stated: on a run with a session file nothing is registered, pushed
\* or written before the file as found was read completely, the loaded
\* messages being exactly its messages; and once the run is over the file
\* decodes to the loaded messages followed by the messages the session
\* listener observed in this run.
C15_AsStated ==
    args.session =>
      /\ (listeners # <<>> \/ observed # <<>> \/ trace # <<>>
            \/ sessionFile.bytes # files0.session.bytes) =>
           read_session_messages(files0.session) = [ok |-> TRUE, val |-> loaded]
      /\ (Ended /\ Registered("session")) =>
           read_session_messages(sessionFile) =
              [ok |-> TRUE, val |-> loaded \o SeenBy("session")]

\* C15 amended: on a run with a session file nothing is registered, pushed
\* or written before the file as found was read completely, the loaded
\* messages being exactly its messages; the bytes found stay at the head of
\* the file, followed by the lines of the messages the session listener
\* wrote with Ok, and, only after a write of it failed, by a part of the
\* line of the failing message; and once a run is over in which every write
\* of the session listener returned Ok, on a file found absent, empty or
\* ending in a line terminator, the file decodes to the loaded messages
\* followed by the messages the session listener observed in this run.
C15_Loaded ==
    args.session =>
      /\ (listeners # <<>> \/ observed # <<>> \/ trace # <<>>
            \/ sessionFile.bytes # files0.session.bytes) =>
           read_session_messages(files0.session) = [ok |-> TRUE, val |-> loaded]
      /\ Registered("session") =>
           LET base == files0.session.bytes \o SessionBytes(SessionWritten)
           IN /\ IsPrefix(base, sessionFile.bytes)
              /\ SessionWritesOk => sessionFile.bytes = base
              /\ ~SessionWritesOk =>
                    IsPrefix(sessionFile.bytes,
                             base \o Serialize(pushing[1].msg) \o <<LF>>)
      /\ (Ended /\ Registered("session") /\ SessionWritesOk
            /\ Terminated(files0.session)) =>
           read_session_messages(sessionFile) =
              [ok |-> TRUE, val |-> loaded \o SeenBy("session")]

\* C15: the amended statement holds in every state, and no step of the run
\* rewrites or removes a byte of the session file: each step leaves its
\* bytes a prefix of what it holds afterwards.
C15_LoadThenAppend ==
    /\ []C15_Loaded
    /\ [][IsPrefix(sessionFile.bytes, sessionFile'.bytes)]_vars

C15_Witness ==
    /\ args.session /\ Registered("session")
    /\ pc = "done"
    /\ Len(loaded) = 2 /\ loaded[1] # loaded[2]
    /\ Len(SeenBy("session")) >= 2
    /\ read_session_messages(sessionFile) =
          [ok |-> TRUE, val |-> loaded \o SeenBy("session")]

\* ------------------------------------------------------------------ C16
\* What the user is to see of a reply, by mode.
Expected(m) ==
    [styled |-> args.tty,
     text |-> IF args.tty THEN m.content ELSE m.content \o <<LF>>]

\* C16: there is one display per request that returned a reply, less the
\* one about to be made; each display directly follows the return of a
\* request with a reply and is directly followed by the start of the push
\* of that reply, and no reply push starts otherwise; what is displayed is
\* the content of the reply then pushed; and a round whose request failed
\* or returned no choice displays nothing.
C16_DisplayedOnce ==
    /\ Len(display) = Count("display")
    /\ Count("display") = Count("resp_ok") - (IF pc = "show" THEN 1 ELSE 0)
    /\ Count("push_reply") = Count("display")
    /\ \A i \in 1..Len(trace) :
         /\ trace[i] = "display" =>
              /\ i > 1 /\ trace[i - 1] = "resp_ok"
              /\ i < Len(trace) /\ trace[i + 1] = "push_reply"
         /\ trace[i] = "push_reply" => trace[i - 1] = "display"
         /\ (trace[i] = "resp_ok" /\ i < Len(trace)) => trace[i + 1] = "display"
         /\ trace[i] \in {"resp_err", "resp_empty"} => i = Len(trace)
    /\ 2 * Len(display) <= Len(Attempts)
    /\ \A j \in 1..Len(display) : display[j] = Expected(Attempts[2 * j])
    /\ pc = "show" => mesg # <<>> /\ pushing = <<>>
    /\ LastEvent \in {"resp_err", "resp_empty"} =>
         /\ Len(display) = Count("call") - 1
         /\ pc \in {"error", "panic"}

C16_Witness ==
    /\ args.tty
    /\ pc = "push" /\ pushing[1].kind = "reply"
    /\ Len(display) = 2 /\ Count("resp_ok") = 2
    /\ display[1] # display[2]
    /\ display[2].text = pushing[1].msg.content
    /\ LastEvent = "push_reply"

\* ------------------------------------------------------------------ C17
\* C17: without an API key the run stands at its start or has panicked
\* there, and nothing has happened: the session file and the output file
\* are as found (not read into the ledger, not opened, not created), no
\* listener is registered, the ledger is empty, no input was read, no push
\* entered, no request issued and nothing displayed.
C17_NoKeyNoEffect ==
    ~args.api_key =>
      /\ pc \in {"start", "panic"}
      /\ sessionFile = files0.session /\ outputFile = files0.output
      /\ listeners = <<>> /\ messages = <<>> /\ loaded = <<>>
      /\ input = <<>> /\ trace = <<>> /\ observed = <<>> /\ pushed = <<>>
      /\ pushing = <<>> /\ request = <<>> /\ mesg = <<>> /\ display = <<>>

C17_Witness ==
    /\ ~args.api_key /\ pc = "panic"
    /\ args.session /\ args.output
    /\ sessionFile.exists /\ read_session_messages(sessionFile).ok
    /\ sessionFile.bytes # <<>>
    /\ ~outputFile.exists

\* ------------------------------------------------------------------ C18
\* The bytes the output listener writes for a sequence of messages.
RECURSIVE OutputBytes(_)
OutputBytes(ms) ==
    IF ms = <<>> THEN <<>> ELSE ms[1].content \o <<LF, LF>> \o OutputBytes(Tail(ms))

OutputWritten ==
    LET IsOutputOk(o) == o.sink = "output" /\ o.ok
        os == SelectSeq(observed, IsOutputOk)
    IN [i \in 1..Len(os) |-> os[i].msg]

\* C18: the loaded messages stand at the head of the ledger and were given
\* to no listener: a listener that is not registered has seen nothing, a
\* registered one has seen only messages push was entered with in this
\* run, in order, and until the first push is entered no listener has been
\* called and both files hold the bytes found.  The session file is the
\* bytes found followed by lines of this run's messages only, and the
\* output file is the bytes found followed by the text of this run's
\* messages only.
C18_LoadedNotDelivered ==
    /\ messages = loaded \o pushed
    /\ \A l \in {"session", "output"} :
         /\ ~Registered(l) => SeenBy(l) = <<>>
         /\ IsPrefix(SeenBy(l), Attempts)
    /\ Len(observed) <= Len(listeners) * Len(Attempts)
    /\ Attempts = <<>> =>
         /\ observed = <<>>
         /\ sessionFile.bytes = files0.session.bytes
         /\ outputFile.bytes = files0.output.bytes
    /\ Registered("session") =>
         /\ IsPrefix(files0.session.bytes \o SessionBytes(SessionWritten),
                     sessionFile.bytes)
         /\ IsPrefix(sessionFile.bytes,
                     files0.session.bytes \o SessionBytes(Attempts))
    /\ Registered("output") =>
         /\ IsPrefix(files0.output.bytes \o OutputBytes(OutputWritten),
                     outputFile.bytes)
         /\ IsPrefix(outputFile.bytes,
                     files0.output.bytes \o OutputBytes(Attempts))

C18_Witness ==
    /\ Registered("session") /\ Registered("output")
    /\ Len(loaded) = 2 /\ Len(pushed) = 2
    /\ pc \in {"read_line", "done"}
    /\ SeenBy("session") = pushed /\ SeenBy("output") = pushed
    /\ Len(Lines(sessionFile.bytes)) = 4
    /\ outputFile.bytes = files0.output.bytes \o OutputBytes(pushed)

\* ------------------------------------------------------------------ C19
\* C19: a response without a choice ends the run, in either mode, in a
\* panic and not in an error: it is the last event, so no input is read and
\* no request issued after it; the round displays no reply and enters no
\* reply push; and the user message of the round is the last message of the
\* ledger and, with a session file, its line is in the file.
C19_NoChoicePanics ==
    /\ \A i \in 1..Len(trace) : trace[i] = "resp_empty" => i = Len(trace)
    /\ LastEvent = "resp_empty" =>
         /\ pc = "panic"
         /\ pushing = <<>> /\ mesg = <<>> /\ request = <<>>
         /\ Len(display) = Count("call") - 1
         /\ Count("display") = Count("call") - 1
         /\ Count("push_reply") = Count("call") - 1
         /\ Count("push_user") = Count("call")
         /\ Len(input) = Count("call")
         /\ Len(pushed) = 2 * Count("call") - 1
         /\ messages = loaded \o pushed
         /\ Last(messages) = ChatGptMessage("User", Last(input))
         /\ Registered("session") =>
              /\ sessionFile.bytes = files0.session.bytes \o SessionBytes(pushed)
              /\ Terminated(files0.session) =>
                   Deserialize(Last(Lines(sessionFile.bytes))) =
                      [ok |-> TRUE, val |-> Last(messages)]
    /\ (pc = "error" /\ trace # <<>>) => LastEvent # "resp_empty"

C19_Witness ==
    /\ LastEvent = "resp_empty" /\ pc = "panic"
    /\ args.tty /\ Registered("session")
    /\ Count("call") = 2 /\ Len(display) = 1
    /\ Len(loaded) >= 1
    /\ Last(messages) = ChatGptMessage("User", input[2])

====
